---- MODULE Spec2Model ----
(***************************************************************************)
(* Model of CancellableBarrier (shared/core/src/cancellable_barrier.rs):  *)
(* a cyclic barrier for `total` participants built from one Mutex and one *)
(* Condvar, with cancel and reset.                                         *)
(*                                                                         *)
(* Every critical section of the source (from a lock acquisition to the    *)
(* next release of the lock, which is either the end of the function or a  *)
(* Condvar::wait) is one atomic action.  A thread inside Condvar::wait is   *)
(* "waiting" until a notify_all or a spurious wakeup makes it "woken"; a   *)
(* woken thread re-acquires the lock in WakeCheck.                         *)
(*                                                                         *)
(* usize arithmetic is modelled by unbounded integers: the counters stay   *)
(* below MaxGen, far from 2^64.                                            *)
(***************************************************************************)
EXTENDS Integers, Sequences, FiniteSets, TLC

\* ---- bounds of the model ----
NThreads == 3       \* threads that may call wait
MaxTotal == 2       \* total is drawn from 1..MaxTotal
MaxCalls == 2       \* wait calls one thread makes at most
MaxCtlWaits == 3    \* wait calls in one execution that is not normal use at most
MaxCtl == 2         \* cancel and reset calls in one execution at most

Threads == 1..NThreads
\* the thread that owns the barrier and is no participant (the test's main thread)
Main == 0
Callers == Threads \cup {Main}
\* generation goes up at a completed round or a reset only
MaxGen == NThreads * MaxCalls + MaxCtl
Gens == 0..MaxGen
\* arrival generation of a call that was rejected at entry (it has none)
NoGen == MaxGen + 1

VARIABLES
    count, total, generation, cancelled,  \* BarrierState
    pc,         \* per thread: "idle" | "waiting" (in Condvar::wait) | "woken" (notified, about to re-lock)
    arrGen,     \* per thread: the local `generation` of its call in progress
    ncalls,     \* per thread: the number of its wait calls that have returned (history)
    last,       \* per thread: the result of its latest wait call that returned (history)
    arrived,    \* per generation: the number of calls that recorded it at arrival (history)
    completed,  \* generations whose round a last arrival completed (history)
    cancels, resets,   \* number of cancel / reset calls so far (history)
    lastCtl,    \* the last of cancel and reset that was called (history)
    atCancel,   \* threads that were blocked in wait at some cancel, until they return
    plan,       \* per thread: the number of wait calls it is going to make (environment)
    quiet       \* TRUE: exactly total threads call wait, and nobody is going to
                \* call cancel or reset (environment)

bstate == <<count, total, generation, cancelled>>
tstate == <<pc, arrGen>>
hist == <<ncalls, last, arrived, completed, cancels, resets, lastCtl, atCancel>>
env == <<plan, quiet>>
vars == <<count, total, generation, cancelled, pc, arrGen, ncalls, last, arrived,
          completed, cancels, resets, lastCtl, atCancel,
          plan, quiet>>

\* Result<usize, CancelledBarrier> of one call: Ok(g), or the error of a call
\* whose arrival generation was g (NoGen when it was rejected at entry)
OkRes(g) == [ok |-> TRUE, gen |-> g]
ErrRes(g) == [ok |-> FALSE, gen |-> g]

\* the result of a thread that has not returned from any call
NoRes == [ok |-> FALSE, gen |-> NoGen]

\* p[1] + ... + p[n]
RECURSIVE SumTo(_, _)
SumTo(p, n) == IF n = 0 THEN 0 ELSE p[n] + SumTo(p, n - 1)

\* Threads are interchangeable: the plans are listed up to renaming of threads
Plans == {p \in [Threads -> 0..MaxCalls] : \A t \in Threads : t > 1 => p[t] <= p[t - 1]}

\* the threads that call wait at all
Participants == {t \in Threads : plan[t] > 0}

\* exactly total participants, k calls each, and no cancel or reset
NormalUse(k) ==
    /\ quiet
    /\ Cardinality(Participants) = total
    /\ \A t \in Participants : plan[t] = k

\* CancellableBarrier::new(n), n > 0 asserted.  The callers either use the
\* barrier as test_basic_barrier does, any number of rounds, or they are any
\* threads, and cancel and reset may be called.
Init ==
    /\ total \in 1..MaxTotal
    /\ count = 0
    /\ generation = 0
    /\ cancelled = FALSE
    /\ pc = [t \in Threads |-> "idle"]
    /\ arrGen = [t \in Threads |-> 0]
    /\ ncalls = [t \in Threads |-> 0]
    /\ last = [t \in Threads |-> NoRes]
    /\ arrived = [g \in Gens |-> 0]
    /\ completed = {}
    /\ cancels = 0
    /\ resets = 0
    /\ lastCtl = "none"
    /\ atCancel = {}
    /\ plan \in Plans
    /\ quiet \in BOOLEAN
    /\ IF quiet THEN \E k \in 1..MaxCalls : NormalUse(k)
                ELSE SumTo(plan, NThreads) <= MaxCtlWaits

\* notify_all wakes nobody
NotifyAll_Lost(p) == p

\* Condvar::notify_all: every thread in Condvar::wait becomes runnable
NotifyAll(p) == [t \in Threads |-> IF p[t] = "waiting" THEN "woken" ELSE p[t]]

\* the check of the flag at entry is left out
CancelledAtEntry_Skipped == FALSE

\* line 44: if state.cancelled
CancelledAtEntry == cancelled

\* the round is taken to be complete one arrival early
NotLast_OffByOne(c) == c + 1 < total

\* line 51: if state.count < state.total, evaluated after count += 1
NotLast(c) == c < total

\* line 53: the condition of the wait loop
LoopCond(t) == count < total /\ generation = arrGen[t] /\ ~cancelled

\* a waiter that finds the generation more than one round ahead fails
ErrAfterWait_Stale(t) == cancelled \/ generation # arrGen[t] + 1

\* line 57: if state.cancelled, after the wait loop
ErrAfterWait(t) == cancelled

\* the call of t returns r
Return(t, r) ==
    /\ ncalls' = [ncalls EXCEPT ![t] = @ + 1]
    /\ last' = [last EXCEPT ![t] = r]
    /\ atCancel' = atCancel \ {t}

\* wait, lines 42-46: the barrier is cancelled at entry
EntryCancelled(t) ==
    /\ CancelledAtEntry
    /\ Return(t, ErrRes(NoGen))
    /\ UNCHANGED <<bstate, tstate, arrived, completed, cancels, resets, lastCtl,
                   env>>

\* wait, lines 48-55: an arrival that is not the last one blocks
Block(t) ==
    /\ ~CancelledAtEntry
    /\ NotLast(count + 1)
    /\ count' = count + 1
    /\ arrGen' = [arrGen EXCEPT ![t] = generation]
    /\ arrived' = [arrived EXCEPT ![generation] = @ + 1]
    /\ UNCHANGED <<total, generation, cancelled, ncalls, last, completed, cancels, resets,
                   lastCtl, atCancel, env>>
    /\ pc' = [pc EXCEPT ![t] = IF LoopCond(t)' THEN "waiting" ELSE "woken"]

\* the last arrival does not advance the generation
Complete_NoBump(t) ==
    /\ ~CancelledAtEntry
    /\ ~NotLast(count + 1)
    /\ count' = 0
    /\ arrGen' = [arrGen EXCEPT ![t] = generation]
    /\ arrived' = [arrived EXCEPT ![generation] = @ + 1]
    /\ completed' = completed \cup {generation}
    /\ pc' = NotifyAll(pc)
    /\ Return(t, OkRes(generation))
    /\ UNCHANGED <<total, generation, cancelled, cancels, resets, lastCtl, env>>

\* the last arrival does not set count back to 0
Complete_KeepCount(t) ==
    /\ ~CancelledAtEntry
    /\ ~NotLast(count + 1)
    /\ count' = count + 1
    /\ generation' = generation + 1
    /\ arrGen' = [arrGen EXCEPT ![t] = generation]
    /\ arrived' = [arrived EXCEPT ![generation] = @ + 1]
    /\ completed' = completed \cup {generation}
    /\ pc' = NotifyAll(pc)
    /\ Return(t, OkRes(generation))
    /\ UNCHANGED <<total, cancelled, cancels, resets, lastCtl, env>>

\* wait, lines 48-51 and 60-67: the last arrival completes the round
Complete(t) ==
    /\ ~CancelledAtEntry
    /\ ~NotLast(count + 1)
    /\ count' = 0
    /\ generation' = generation + 1
    /\ arrGen' = [arrGen EXCEPT ![t] = generation]
    /\ arrived' = [arrived EXCEPT ![generation] = @ + 1]
    /\ completed' = completed \cup {generation}
    /\ pc' = NotifyAll(pc)
    /\ Return(t, OkRes(generation))
    /\ UNCHANGED <<total, cancelled, cancels, resets, lastCtl, env>>

\* wait, from the lock to the first Condvar::wait or to the return
WaitEnter(t) ==
    /\ pc[t] = "idle"
    /\ ncalls[t] < plan[t]
    /\ (EntryCancelled(t) \/ Block(t) \/ Complete(t))

\* a Condvar::wait may return without a notification
SpuriousWake(t) ==
    /\ pc[t] = "waiting"
    /\ pc' = [pc EXCEPT ![t] = "woken"]
    /\ UNCHANGED <<bstate, arrGen, hist, env>>

\* a waiter that reports the cancellation clears the flag
WakeCheck_AutoClear(t) ==
    /\ pc[t] = "woken"
    /\ IF LoopCond(t)
       THEN /\ pc' = [pc EXCEPT ![t] = "waiting"]
            /\ UNCHANGED <<ncalls, last, atCancel, cancelled>>
       ELSE /\ pc' = [pc EXCEPT ![t] = "idle"]
            /\ cancelled' = FALSE
            /\ IF ErrAfterWait(t)
               THEN Return(t, ErrRes(arrGen[t]))
               ELSE Return(t, OkRes(arrGen[t]))
    /\ UNCHANGED <<count, total, generation, arrGen, arrived, completed, cancels, resets,
                   lastCtl, env>>

\* the wait condition is tested by an if, not a while: any wakeup ends the wait
WakeCheck_NoRecheck(t) ==
    /\ pc[t] = "woken"
    /\ pc' = [pc EXCEPT ![t] = "idle"]
    /\ IF ErrAfterWait(t)
       THEN Return(t, ErrRes(arrGen[t]))
       ELSE Return(t, OkRes(arrGen[t]))
    /\ UNCHANGED <<bstate, arrGen, arrived, completed, cancels, resets, lastCtl,
                   env>>

\* a waiter that reports the cancellation takes its arrival back
WakeCheck_Withdraw(t) ==
    /\ pc[t] = "woken"
    /\ IF LoopCond(t)
       THEN /\ pc' = [pc EXCEPT ![t] = "waiting"]
            /\ UNCHANGED <<ncalls, last, atCancel, count>>
       ELSE /\ pc' = [pc EXCEPT ![t] = "idle"]
            /\ IF ErrAfterWait(t)
               THEN /\ Return(t, ErrRes(arrGen[t]))
                    /\ count' = IF count > 0 THEN count - 1 ELSE 0
               ELSE /\ Return(t, OkRes(arrGen[t]))
                    /\ count' = count
    /\ UNCHANGED <<total, generation, cancelled, arrGen, arrived, completed, cancels, resets,
                   lastCtl, env>>

\* wait, lines 53-59 and 67: Condvar::wait returned with the lock held
WakeCheck(t) ==
    /\ pc[t] = "woken"
    /\ IF LoopCond(t)
       THEN /\ pc' = [pc EXCEPT ![t] = "waiting"]
            /\ UNCHANGED <<ncalls, last, atCancel>>
       ELSE /\ pc' = [pc EXCEPT ![t] = "idle"]
            /\ IF ErrAfterWait(t)
               THEN Return(t, ErrRes(arrGen[t]))
               ELSE Return(t, OkRes(arrGen[t]))
    /\ UNCHANGED <<bstate, arrGen, arrived, completed, cancels, resets, lastCtl,
                   env>>

\* cancel flips the flag
Cancel_Toggle(c) ==
    /\ (c \in Threads => pc[c] = "idle")
    /\ ~quiet /\ cancels + resets < MaxCtl
    /\ cancelled' = ~cancelled
    /\ pc' = NotifyAll(pc)
    /\ cancels' = cancels + 1
    /\ lastCtl' = "cancel"
    /\ atCancel' = atCancel \cup {t \in Threads : pc[t] # "idle"}
    /\ UNCHANGED <<count, total, generation, arrGen, ncalls, last, arrived, completed,
                   resets, env>>

\* cancel, lines 71-75
Cancel(c) ==
    /\ (c \in Threads => pc[c] = "idle")
    /\ ~quiet /\ cancels + resets < MaxCtl
    /\ cancelled' = TRUE
    /\ pc' = NotifyAll(pc)
    /\ cancels' = cancels + 1
    /\ lastCtl' = "cancel"
    /\ atCancel' = atCancel \cup {t \in Threads : pc[t] # "idle"}
    /\ UNCHANGED <<count, total, generation, arrGen, ncalls, last, arrived, completed,
                   resets, env>>

\* reset leaves the flag as it is
Reset_KeepCancelled(c) ==
    /\ (c \in Threads => pc[c] = "idle")
    /\ ~quiet /\ cancels + resets < MaxCtl
    /\ count' = 0
    /\ generation' = generation + 1
    /\ resets' = resets + 1
    /\ lastCtl' = "reset"
    /\ UNCHANGED <<cancelled, total, tstate, ncalls, last, arrived, completed, cancels,
                   atCancel, env>>

\* reset does not advance the generation
Reset_NoBump(c) ==
    /\ (c \in Threads => pc[c] = "idle")
    /\ ~quiet /\ cancels + resets < MaxCtl
    /\ cancelled' = FALSE
    /\ count' = 0
    /\ resets' = resets + 1
    /\ lastCtl' = "reset"
    /\ UNCHANGED <<total, generation, tstate, ncalls, last, arrived, completed, cancels,
                   atCancel, env>>

\* reset leaves count as it is
Reset_KeepCount(c) ==
    /\ (c \in Threads => pc[c] = "idle")
    /\ ~quiet /\ cancels + resets < MaxCtl
    /\ cancelled' = FALSE
    /\ generation' = generation + 1
    /\ resets' = resets + 1
    /\ lastCtl' = "reset"
    /\ UNCHANGED <<count, total, tstate, ncalls, last, arrived, completed, cancels,
                   atCancel, env>>

\* reset, lines 78-83 (it issues no notification)
Reset(c) ==
    /\ (c \in Threads => pc[c] = "idle")
    /\ ~quiet /\ cancels + resets < MaxCtl
    /\ cancelled' = FALSE
    /\ count' = 0
    /\ generation' = generation + 1
    /\ resets' = resets + 1
    /\ lastCtl' = "reset"
    /\ UNCHANGED <<total, tstate, ncalls, last, arrived, completed, cancels,
                   atCancel, env>>

Next ==
    \/ \E t \in Threads : WaitEnter(t)
    \/ \E t \in Threads : SpuriousWake(t)
    \/ \E t \in Threads : WakeCheck(t)
    \/ \E c \in Callers : Cancel(c)
    \/ \E c \in Callers : Reset(c)

Spec == Init /\ [][Next]_vars

\* Threads are scheduled fairly: a thread that is to call wait calls it, and a
\* notified thread gets the lock.  Nothing forces a spurious wakeup, a cancel
\* or a reset to happen.
Fairness ==
    /\ \A t \in Threads : WF_vars(WaitEnter(t))
    /\ \A t \in Threads : WF_vars(WakeCheck(t))

FairSpec == Init /\ [][Next]_vars /\ Fairness

\* ---- vocabulary of the properties ----

\* t has returned from a call, and its latest call returned Ok(g)
ReturnedOk(t, g) == ncalls[t] > 0 /\ last[t].ok /\ last[t].gen = g

\* t returns from a call in this step
Returns(t) == ncalls'[t] = ncalls[t] + 1

\* t is inside Condvar::wait (notified or not)
Blocked(t) == pc[t] # "idle"

\* ---- C1 ----
\* C1: when exactly total participants call wait once each and nobody calls
\* cancel or reset, then under fair scheduling every call returns Ok(0), the
\* generation at the time of all the arrivals.
C1_LivenessNormalUse ==
    NormalUse(1) => <>(\A t \in Participants : pc[t] = "idle" /\ ReturnedOk(t, 0))

\* all the participants of the largest barrier have met
C1_Witness ==
    /\ NormalUse(1) /\ total = MaxTotal
    /\ \A t \in Participants : pc[t] = "idle" /\ ReturnedOk(t, 0)

\* ---- C2 ----
\* C2: as long as reset has not been called, a call that returned Ok(g) did so
\* after total calls had arrived with arrival generation g.
C2_NoEarlyRelease ==
    resets = 0 =>
        \A t \in Threads : (ncalls[t] > 0 /\ last[t].ok) => arrived[last[t].gen] = total

\* the last arrival of the largest barrier has returned Ok and a waiter of
\* its round is about to, reset never called
C2_Witness ==
    /\ resets = 0 /\ total = MaxTotal
    /\ cancels = 0
    /\ \E t, u \in Threads : ReturnedOk(t, 0) /\ pc[u] = "woken" /\ arrGen[u] = 0

\* ---- C3 ----
\* C3: a thread that is blocked in wait when cancel is called eventually
\* returns, and what it returns is CancelledBarrier, never Ok.
C3_BlockedAtCancelFails ==
    /\ [][\A t \in atCancel : Returns(t) => ~last'[t].ok]_vars
    /\ \A t \in Threads : (t \in atCancel) ~> (t \notin atCancel)

\* ---- C4 ----
\* C4: a call that arrived in a round that was completed (whose last arrival
\* returned Ok) returns Ok, not CancelledBarrier.
C4_NoMixedOutcome ==
    [][\A t \in Threads :
         (Blocked(t) /\ Returns(t) /\ arrGen[t] \in completed) => last'[t].ok]_vars

\* ---- C5 ----
\* C5: a wait called while cancelled is true returns CancelledBarrier in the
\* same critical section, without blocking, and leaves count, generation and
\* cancelled as they were; the caller of cancel is no exception.
C5_EntryFails ==
    [][\A t \in Threads :
         (cancelled /\ pc[t] = "idle" /\ (pc'[t] # "idle" \/ ncalls'[t] # ncalls[t]))
         => /\ pc'[t] = "idle"
            /\ Returns(t)
            /\ ~last'[t].ok
            /\ count' = count /\ generation' = generation /\ cancelled' = cancelled
            /\ arrived' = arrived]_vars

\* a thread has called wait on the cancelled barrier and got the error at
\* entry; count still holds the arrival of a waiter
C5_Witness ==
    /\ cancelled
    /\ count > 0
    /\ \E t \in Threads : pc[t] = "idle" /\ ncalls[t] > 0 /\ ~last[t].ok /\ last[t].gen = NoGen

\* ---- C6 ----
\* the state after cancel, a failed wait and reset, with exactly total calls
\* of wait still to come and no cancel or reset
FreshRound ==
    /\ lastCtl = "reset" /\ cancels > 0
    /\ cancels + resets = MaxCtl
    /\ arrived[generation] = 0
    /\ \E t \in Threads : ncalls[t] > 0 /\ ~last[t].ok
    /\ LET F == {t \in Threads : ncalls[t] < plan[t]}
       IN  /\ Cardinality(F) = total
           /\ \A t \in F : pc[t] = "idle" /\ plan[t] = ncalls[t] + 1

\* C6: after cancel, a wait that failed, and reset, exactly total fresh calls
\* of wait all return Ok with the same round index: the round they complete
\* is the one before the current generation, total calls arrived in it, and
\* total threads hold its index as the Ok result of their latest call.
C6_ResetRestoresLiveness ==
    FreshRound ~>
        /\ generation - 1 \in completed
        /\ arrived[generation - 1] = total
        /\ Cardinality({t \in Threads : pc[t] = "idle" /\ ReturnedOk(t, generation - 1)}) = total

\* generation 0 saw no arrival, the reset opened generation 1, and the round
\* of generation 1 was completed by two calls: the third call failed at entry
C6_Witness ==
    /\ lastCtl = "reset" /\ cancels > 0
    /\ total = 2 /\ generation = 2 /\ arrived[0] = 0 /\ completed = {1}
    /\ Cardinality({t \in Threads : pc[t] = "idle" /\ ReturnedOk(t, 1)}) = 2
    /\ SumTo(ncalls, NThreads) = 3

\* ---- C7 ----
\* C7: a thread that is blocked on a generation that a reset has made stale
\* eventually returns from wait.
C7_StaleWaitersExit ==
    \A t \in Threads :
        (pc[t] = "waiting" /\ lastCtl = "reset" /\ arrGen[t] # generation) ~> (pc[t] = "idle")

\* ---- C8 ----
\* C8: a waiter whose own round was not completed does not return Ok once a
\* round of a later generation has been completed.
C8_NoLaterRoundClaimed ==
    [][\A t \in Threads :
         (Blocked(t) /\ Returns(t) /\ last'[t].ok /\ \E g \in completed : g > arrGen[t])
         => arrGen[t] \in completed]_vars

\* ---- C9 ----
\* C9: with exactly total participants calling wait k times each and no cancel
\* or reset, the r-th call of each returns Ok(r - 1) and only once total calls
\* have arrived in generation r - 1, and every participant gets through all
\* its k calls.
C9_CyclicReuse ==
    (\E k \in 1..MaxCalls : NormalUse(k)) =>
        /\ [](\A t \in Participants :
                ncalls[t] > 0 =>
                    /\ ReturnedOk(t, ncalls[t] - 1)
                    /\ arrived[ncalls[t] - 1] = total)
        /\ <>(\A t \in Participants : ncalls[t] = plan[t] /\ pc[t] = "idle")

\* a participant is back in wait for round 1 while a peer has not yet woken
\* from round 0
C9_Witness ==
    /\ NormalUse(2) /\ total >= 2
    /\ \E t, u \in Participants :
          /\ pc[t] = "woken" /\ arrGen[t] = 0
          /\ pc[u] = "waiting" /\ arrGen[u] = 1

\* ---- C10 ----
\* C10: while cancelled is true, every step other than a reset leaves it true,
\* and a wait that starts then returns CancelledBarrier and does not block.
C10_StickyCancel ==
    [][(cancelled /\ resets' = resets) =>
          /\ cancelled'
          /\ \A t \in Threads :
                pc[t] = "idle" => (pc'[t] = "idle" /\ (Returns(t) => ~last'[t].ok))]_vars

\* a blocked waiter and a later caller have both been failed, the flag is still up
C10_Witness ==
    /\ cancelled
    /\ \E t, u \in Threads :
          /\ ncalls[t] > 0 /\ ~last[t].ok /\ last[t].gen # NoGen
          /\ ncalls[u] > 0 /\ ~last[u].ok /\ last[u].gen = NoGen

\* ---- vocabulary of the steps ----

\* this step is the last arrival of a round
CompletionStep == completed' # completed

\* this step is a call of reset
ResetStep == resets' = resets + 1

\* this step is a call of cancel
CancelStep == cancels' = cancels + 1

\* ---- C11 ----
\* C11: generation goes up by exactly one at every round completion and at
\* every reset, and is left alone by every other step; the round index that a
\* completion returns is larger than the index of every round completed before.
C11_GenerationMonotonic ==
    [][/\ generation' = IF CompletionStep \/ ResetStep THEN generation + 1 ELSE generation
       /\ \A t \in Threads :
             (CompletionStep /\ Returns(t)) =>
                 /\ last'[t].ok
                 /\ \A g \in completed : g < last'[t].gen]_vars

\* a reset of a round nobody completed has advanced the generation, and a
\* round has been completed after it
C11_Witness ==
    /\ resets = 1 /\ generation = 2
    /\ completed = {1}
    /\ \E t \in Threads : pc[t] = "idle" /\ ReturnedOk(t, 1)

\* ---- C12 ----
\* C12: between any two critical sections 0 <= count < total; count reaches
\* total only within the step of the last arrival (the arrival that finds
\* total - 1), which leaves it at 0; total never changes.
C12_CountBound ==
    /\ [](0 <= count /\ count < total)
    /\ [][/\ total' = total
          /\ CompletionStep => (count + 1 = total /\ count' = 0)]_vars

\* a round has been completed and the next one is one arrival short
C12_Witness ==
    /\ total = MaxTotal
    /\ completed # {}
    /\ count = total - 1

\* ---- C13 ----
\* this step is an arrival: a call of wait records its arrival generation
ArrivalStep == arrived' # arrived

\* C13: the last-arrival branch is taken at most once per generation, by the
\* arrival whose increment makes count equal total and by no other; that call
\* sets count to 0, advances the generation, notifies every waiter and
\* returns Ok of the generation it arrived in without blocking.
C13_UniqueLastArrival ==
    [][/\ CompletionStep =>
             /\ generation \notin completed
             /\ completed' = completed \cup {generation}
             /\ count + 1 = total
             /\ count' = 0 /\ generation' = generation + 1
             /\ \A u \in Threads : pc[u] = "waiting" => pc'[u] = "woken"
             /\ Cardinality({t \in Threads : Returns(t)}) = 1
             /\ \A t \in Threads :
                   Returns(t) => /\ pc[t] = "idle" /\ pc'[t] = "idle"
                                 /\ last'[t] = OkRes(generation)
       /\ (ArrivalStep /\ count + 1 = total) => CompletionStep]_vars

\* two rounds of the largest barrier have been completed, each by one last
\* arrival, and the waiters of the second have been notified
C13_Witness ==
    /\ total = MaxTotal
    /\ completed = {0, 1}
    /\ \E t, u \in Threads : ReturnedOk(t, 1) /\ pc[t] = "idle" /\ pc[u] = "woken" /\ arrGen[u] = 1

\* ---- C14 ----
\* C14: a cancel of a barrier that is already cancelled (the second of two
\* cancels in succession is one) changes neither the barrier state nor the
\* position of any thread, so that every wait call, in progress or later,
\* goes on as after the first cancel.
C14_IdempotentCancel ==
    [][(cancelled /\ CancelStep) => UNCHANGED <<count, total, generation, cancelled, pc, arrGen>>]_vars

\* cancel has been called twice while a waiter it woke has not returned yet
C14_Witness ==
    /\ cancels = 2 /\ resets = 0
    /\ cancelled
    /\ count > 0
    /\ \E t \in Threads : pc[t] = "woken"

\* ---- C15 ----
\* C15: cancel sets the flag and changes none of count, generation and total;
\* a wait call that returns CancelledError changes neither count nor
\* generation; so, while the barrier is cancelled, count and generation keep
\* their values in every step that is not a reset, and a reset sets count to 0.
C15_CancelFrame ==
    [][/\ CancelStep => (cancelled' /\ count' = count /\ generation' = generation /\ total' = total)
       /\ \A t \in Threads :
             (Returns(t) /\ ~last'[t].ok) => (count' = count /\ generation' = generation)
       /\ (cancelled /\ ~ResetStep) => (count' = count /\ generation' = generation)
       /\ (cancelled /\ ResetStep) => count' = 0]_vars

\* a waiter woken by cancel has returned CancelledError and count still has
\* the value it had before the cancel
C15_Witness ==
    /\ cancelled /\ cancels = 1 /\ resets = 0
    /\ count > 0
    /\ \A t \in Threads : pc[t] = "idle"
    /\ \E t \in Threads : last[t] = ErrRes(generation)

\* ---- C16 ----
\* C16: reset can be taken in every state, whatever count and cancelled are
\* (it has no condition of its own and waits for nothing but the lock), and
\* it leaves cancelled = false, count = 0, generation one more than before
\* and total as it was.
C16_ResetPostState ==
    /\ []((~quiet /\ cancels + resets < MaxCtl) => ENABLED Reset(Main))
    /\ [][ResetStep => /\ cancelled' = FALSE
                       /\ count' = 0
                       /\ generation' = generation + 1
                       /\ total' = total]_vars

\* reset was called on a cancelled barrier holding a partially filled round,
\* whose waiter has not returned yet
C16_Witness ==
    /\ lastCtl = "reset" /\ cancels = 1 /\ resets = 1
    /\ ~cancelled /\ count = 0 /\ generation = 1
    /\ \E t \in Threads : pc[t] = "woken" /\ arrGen[t] = 0 /\ t \in atCancel

\* ---- C17 ----
\* C17: a waiter that comes out of Condvar::wait while the generation is still
\* the one it arrived in and the barrier is not cancelled goes back to waiting
\* and does not return; a waiter that comes out of it and returns Ok does so
\* in a state where the generation differs from its arrival generation and
\* the barrier is not cancelled.
C17_WakeRecheck ==
    [][\A t \in Threads :
          (pc[t] = "woken" /\ pc'[t] # "woken") =>
              /\ (generation = arrGen[t] /\ ~cancelled) =>
                     (pc'[t] = "waiting" /\ ~Returns(t))
              /\ (Returns(t) /\ last'[t].ok) =>
                     (generation # arrGen[t] /\ ~cancelled)
              /\ UNCHANGED bstate]_vars

\* a waiter is out of Condvar::wait although its round is neither complete
\* nor cancelled: the wakeup was a spurious one
C17_Witness ==
    \E t \in Threads :
        /\ pc[t] = "woken"
        /\ generation = arrGen[t] /\ ~cancelled
        /\ count > 0 /\ cancels = 0 /\ resets = 0

\* ---- C18 ----
\* the calls of wait that have arrived in generation g and have not returned
InBarrier(g) == {t \in Threads : pc[t] # "idle" /\ arrGen[t] = g}

\* C18: whenever the barrier is not cancelled, count is the number of wait
\* calls that have arrived in the current generation and have not returned;
\* a call that arrived in an older generation is not counted.
C18_CountIsCurrentArrivals ==
    ~cancelled => count = Cardinality(InBarrier(generation))

\* two calls are inside the barrier, one from before a reset and one from
\* after it, and count is 1
C18_Witness ==
    /\ ~cancelled /\ resets > 0
    /\ count = 1
    /\ \E t, u \in Threads :
          /\ pc[t] # "idle" /\ arrGen[t] < generation
          /\ pc[u] # "idle" /\ arrGen[u] = generation

\* ---- C19 ----
\* C19: a call of wait returns CancelledError only in a step in which the
\* barrier is cancelled, and only after cancel has been called; as long as
\* cancel has not been called, every call of wait that has returned has
\* returned Ok.
C19_NoSpuriousFailure ==
    /\ [](cancels = 0 => \A t \in Threads : ncalls[t] > 0 => last[t].ok)
    /\ [][\A t \in Threads :
             (Returns(t) /\ ~last'[t].ok) => (cancelled /\ cancels > 0)]_vars

\* after a cancel one call has failed at its wake-check and another at entry
C19_Witness ==
    /\ cancels > 0
    /\ \E t, u \in Threads :
          /\ ncalls[t] > 0 /\ ~last[t].ok /\ last[t].gen # NoGen
          /\ ncalls[u] > 0 /\ last[u] = ErrRes(NoGen)

\* ---- C20 ----
\* C20: for every generation g, at most total calls of wait have arrived in
\* g; a call that returns Ok returns the generation it arrived in, so the
\* calls whose result is Ok(g) are among the arrivals of g and are at most
\* total as well.
C20_NoOverSubscription ==
    /\ [](\A g \in Gens :
            /\ arrived[g] <= total
            /\ Cardinality({t \in Threads : ReturnedOk(t, g)}) <= arrived[g])
    /\ [][\A t \in Threads :
             (Returns(t) /\ last'[t].ok) => last'[t].gen = arrGen'[t]]_vars

\* one round was abandoned by a reset before it was full, a later round was
\* filled by exactly total arrivals, all of which returned Ok
C20_Witness ==
    \E g1, g2 \in Gens :
        /\ g1 < g2 /\ g2 < generation
        /\ 0 < arrived[g1] /\ arrived[g1] < total
        /\ arrived[g2] = total
        /\ Cardinality({t \in Threads : ReturnedOk(t, g2)}) = total

TypeOK ==
    /\ total \in 1..MaxTotal
    /\ count \in 0..MaxTotal
    /\ generation \in Gens
    /\ cancelled \in BOOLEAN
    /\ pc \in [Threads -> {"idle", "waiting", "woken"}]
    /\ arrGen \in [Threads -> Gens]
====
